---- MODULE Spec2Model ----
(***************************************************************************)
(* Model of the quiz-ai backend: the POST /generate-quiz endpoint, the     *)
(* validation pipeline of call_openai_quiz and shuffle_question_options.   *)
(* The repository carries two variants of main.py: backend/ (AI only, with *)
(* the shuffler) and bhackend/ (mock fallback, no shuffler).  A deployment *)
(* runs one of them; the variable `variant` says which.                    *)
(*                                                                         *)
(* Text is a sequence of one-character strings, so len() is Len and        *)
(* str.strip() is computed.  Option strings and enum values are atoms.     *)
(* json.loads is taken by its documented contract (data, or a              *)
(* JSONDecodeError); interpreter resource limits are outside the model.    *)
(***************************************************************************)
EXTENDS Integers, Sequences, FiniteSets, TLC

VARIABLES variant, sdk, apiKey, useMock,   \* deployment: module-level config
          pc, req, calls, content, quiz, perms, resp, \* one POST in flight
          spc, sq, sout, sidx                \* a direct call of the shuffler

vars == <<variant, sdk, apiKey, useMock, pc, req, calls, content, quiz, perms,
          resp, spc, sq, sout, sidx>>

cfgVars == <<variant, sdk, apiKey, useMock>>
reqVars == <<pc, req, calls, content, quiz, perms, resp>>
shVars  == <<spc, sq, sout, sidx>>

None == "None"

(***************************** bounds **************************************)
MaxTopicLen == 2
MaxCount == 2
MaxQuestions == 1
NumOptionStrings == 3

(************************ program constants ********************************)
TopicMinLen == 2
TopicMaxLen == 80
CountMin == 1
CountMax == 15
QuestionMinLen == 5
OptionsLen == 4
AnswerIndexMax == 3
ExplanationMinLen == 3

Difficulty == {"easy", "medium", "hard"}

(****************************** text ***************************************)
RECURSIVE lstrip(_)
lstrip(s) == IF s # <<>> /\ Head(s) = " " THEN lstrip(Tail(s)) ELSE s

RECURSIVE rstrip(_)
rstrip(s) ==
  IF s # <<>> /\ s[Len(s)] = " " THEN rstrip(SubSeq(s, 1, Len(s) - 1)) ELSE s

strip(s) == rstrip(lstrip(s))

SeqsUpTo(S, n) == UNION {[1..k -> S] : k \in 0..n}

(*************************** schema ****************************************)
QuizRequestValid(r) ==
  /\ Len(r.topic) >= TopicMinLen
  /\ Len(r.topic) <= TopicMaxLen
  /\ r.difficulty \in Difficulty
  /\ r.count >= CountMin
  /\ r.count <= CountMax

\* a slip: options declared with min_length only
QuizQuestionValid_no_max(q) ==
  /\ Len(q.question) >= QuestionMinLen
  /\ Len(q.options) >= OptionsLen
  /\ q.answer_index >= 0
  /\ q.answer_index <= AnswerIndexMax
  /\ Len(q.explanation) >= ExplanationMinLen

QuizQuestionValid(q) ==
  /\ Len(q.question) >= QuestionMinLen
  /\ Len(q.options) >= OptionsLen
  /\ Len(q.options) <= OptionsLen
  /\ q.answer_index >= 0
  /\ q.answer_index <= AnswerIndexMax
  /\ Len(q.explanation) >= ExplanationMinLen

QuizResponseValid(d) ==
  /\ d.type = "object"
  /\ {"topic", "difficulty", "questions"} \subseteq d.fields
  /\ d.difficulty \in Difficulty
  /\ \A i \in 1..Len(d.questions) : QuizQuestionValid(d.questions[i])

QuizQuestion(qt, opts, ai, ex) ==
  [question |-> qt, options |-> opts, answer_index |-> ai, explanation |-> ex]

QuizResponse(t, d, qs) == [topic |-> t, difficulty |-> d, questions |-> qs]

(*************************** shuffler **************************************)
\* list.index(v): 0-based position of the first occurrence
index(xs, v) == (CHOOSE k \in 1..Len(xs) :
                   xs[k] = v /\ \A m \in 1..(k - 1) : xs[m] # v) - 1

\* x[i], x[j] = x[j], x[i] on 0-based positions
swap(x, i, j) ==
  [k \in 1..Len(x) |-> IF k = i + 1 THEN x[j + 1]
                       ELSE IF k = j + 1 THEN x[i + 1] ELSE x[k]]

\* random.shuffle: for i in reversed(range(1, len(x))): j = randbelow(i + 1);
\* swap x[i], x[j].  The set of lists it can leave behind.
RECURSIVE shuffleFrom(_, _)
shuffleFrom(x, i) ==
  IF i < 1 THEN {x}
  ELSE UNION {shuffleFrom(swap(x, i, j), i - 1) : j \in 0..i}

\* a slip: j drawn below i instead of below i + 1 (cycles only)
RECURSIVE sattoloFrom(_, _)
sattoloFrom(x, i) ==
  IF i < 1 THEN {x}
  ELSE UNION {sattoloFrom(swap(x, i, j), i - 1) : j \in 0..(i - 1)}

random_shuffle_sattolo(x) == sattoloFrom(x, Len(x) - 1)

random_shuffle(x) == shuffleFrom(x, Len(x) - 1)

range(n) == [k \in 1..n |-> k - 1]

\* a slip: the new index read as indices[target_index], the permutation applied
\* the wrong way round
shuffle_question_options_inverse(question, indices) ==
  LET n == Len(question.options)
      target_index ==
        IF 0 <= question.answer_index /\ question.answer_index < n
        THEN question.answer_index ELSE 0
      reordered_options == [k \in 1..n |-> question.options[indices[k] + 1]]
  IN QuizQuestion(question.question, reordered_options,
                  indices[target_index + 1], question.explanation)

\* shuffle_question_options, with `indices` the list random.shuffle left
shuffle_question_options(question, indices) ==
  LET n == Len(question.options)
      target_index ==
        IF 0 <= question.answer_index /\ question.answer_index < n
        THEN question.answer_index ELSE 0
      reordered_options == [k \in 1..n |-> question.options[indices[k] + 1]]
      new_answer_index == index(indices, target_index)
  IN QuizQuestion(question.question, reordered_options, new_answer_index,
                  question.explanation)

(*************************** errors ****************************************)
MalformedJSON == "AI returned invalid JSON"
SchemaViolation == "AI JSON did not match schema"
CountMismatch == "Expected .. questions but got .."
OptionCountMismatch == "Question .. has .. options (expected 4)"
SdkMissing == "OpenAI library not available."
KeyMissing == "OPENAI_API_KEY not set."
RequestFailed == "OpenAI request failed"
NoChoices == "list index out of range"
TopicEmpty == "Topic cannot be empty."
RequestInvalid == "request validation error"

\* a raised exception: its class, its message and the numbers the message carries
Exc(type, msg, a, b) == [type |-> type, msg |-> msg, a |-> a, b |-> b]

IsValueError(e) == e.type = "ValueError"

\* an HTTP response; detail is the JSON error body's `detail`
Detail(prefix, msg, a, b) == [prefix |-> prefix, msg |-> msg, a |-> a, b |-> b]
NoDetail == Detail("", None, 0, 0)
NoBody == QuizResponse(<<>>, None, <<>>)
Http(status, detail, body) == [status |-> status, detail |-> detail, body |-> body]
NoResp == Http(0, NoDetail, NoBody)

(*********************** the model's reply *********************************)
GoodQuestionText == <<"W", "h", "y", "?", "?">>
ShortQuestionText == <<"W", "h", "y", "?">>
GoodExplanation == <<"y", "e", "s">>
ShortExplanation == <<"n", "o">>
FourOptions == <<"a", "b", "c", "d">>

\* questions as a reply can carry them: well-formed ones and one defect each
ReplyQuestions ==
  {QuizQuestion(GoodQuestionText, FourOptions, i, GoodExplanation) :
     i \in 0..AnswerIndexMax}
  \cup {QuizQuestion(GoodQuestionText, <<"a", "b", "c">>, 0, GoodExplanation),
        QuizQuestion(GoodQuestionText, <<"a", "b", "c", "d", "e">>, 1,
                     GoodExplanation),
        QuizQuestion(GoodQuestionText, FourOptions, 0 - 1, GoodExplanation),
        QuizQuestion(GoodQuestionText, FourOptions, AnswerIndexMax + 1,
                     GoodExplanation),
        QuizQuestion(ShortQuestionText, FourOptions, 2, GoodExplanation),
        QuizQuestion(GoodQuestionText, FourOptions, 3, ShortExplanation)}

\* a parsed JSON value: its type and, for an object, the keys it has and their
\* values
JsonData(type, fields, t, d, qs) ==
  [type |-> type, fields |-> fields, topic |-> t, difficulty |-> d,
   questions |-> qs]

AllFields == {"topic", "difficulty", "questions"}

ReplyData ==
  {JsonData("array", {}, <<>>, None, <<>>)}
  \cup {JsonData("object", {"topic", "difficulty"}, <<"a">>, "easy", <<>>)}
  \cup {JsonData("object", {"difficulty", "questions"}, <<>>, "easy", <<>>)}
  \cup {JsonData("object", AllFields, t, d, qs) :
          t \in {<<"a">>, <<"z">>}, d \in {"easy", "extreme"},
          qs \in SeqsUpTo(ReplyQuestions, MaxQuestions)}

\* message.content of the first choice: None, text that is no JSON document,
\* or the text of a JSON document
Content(kind, data) == [kind |-> kind, data |-> data]
NoData == JsonData(None, {}, <<>>, None, <<>>)
NoContent == Content(None, NoData)
Contents ==
  {Content("none", NoData), Content("text", NoData)}
  \cup {Content("json", d) : d \in ReplyData}

\* json.loads((content or "").strip())
json_loads(text) ==
  IF text.kind = "json"
  THEN [ok |-> TRUE, data |-> text.data]
  ELSE [ok |-> FALSE, data |-> NoData]

(********************* call_openai_quiz, after the call ********************)
Raise(e) == [ok |-> FALSE, exc |-> e, quiz |-> NoBody, perms |-> <<>>]
Return(q, ps) == [ok |-> TRUE, exc |-> Exc(None, None, 0, 0), quiz |-> q, perms |-> ps]

\* the first question (1-based) whose option count is not 4, 0 when none
firstBadOptions(qs) ==
  IF \E i \in 1..Len(qs) : Len(qs[i].options) # OptionsLen
  THEN CHOOSE i \in 1..Len(qs) :
         /\ Len(qs[i].options) # OptionsLen
         /\ \A m \in 1..(i - 1) : Len(qs[m].options) = OptionsLen
  ELSE 0

\* a slip: the count check left out
validate_no_count(text, count) ==
  LET parsed == json_loads(text)
      data == parsed.data
      bad == firstBadOptions(data.questions)
  IN IF ~parsed.ok THEN Raise(Exc("ValueError", MalformedJSON, 0, 0))
     ELSE IF ~QuizResponseValid(data)
          THEN Raise(Exc("ValueError", SchemaViolation, 0, 0))
     ELSE IF bad # 0
          THEN Raise(Exc("ValueError", OptionCountMismatch, bad,
                         Len(data.questions[bad].options)))
     ELSE Return(QuizResponse(data.topic, data.difficulty, data.questions), <<>>)

\* a slip: the count of the raw questions list checked before the schema
validate_count_first(text, count) ==
  LET parsed == json_loads(text)
      data == parsed.data
      bad == firstBadOptions(data.questions)
  IN IF ~parsed.ok THEN Raise(Exc("ValueError", MalformedJSON, 0, 0))
     ELSE IF Len(data.questions) # count
          THEN Raise(Exc("ValueError", CountMismatch, count, Len(data.questions)))
     ELSE IF ~QuizResponseValid(data)
          THEN Raise(Exc("ValueError", SchemaViolation, 0, 0))
     ELSE IF bad # 0
          THEN Raise(Exc("ValueError", OptionCountMismatch, bad,
                         Len(data.questions[bad].options)))
     ELSE Return(QuizResponse(data.topic, data.difficulty, data.questions), <<>>)

\* parse -> schema -> count -> option count; the validated quiz or the error
validate(text, count) ==
  LET parsed == json_loads(text)
      data == parsed.data
      bad == firstBadOptions(data.questions)
  IN IF ~parsed.ok THEN Raise(Exc("ValueError", MalformedJSON, 0, 0))
     ELSE IF ~QuizResponseValid(data)
          THEN Raise(Exc("ValueError", SchemaViolation, 0, 0))
     ELSE IF Len(data.questions) # count
          THEN Raise(Exc("ValueError", CountMismatch, count, Len(data.questions)))
     ELSE IF bad # 0
          THEN Raise(Exc("ValueError", OptionCountMismatch, bad,
                         Len(data.questions[bad].options)))
     ELSE Return(QuizResponse(data.topic, data.difficulty, data.questions), <<>>)

\* the tail of call_openai_quiz: backend/ shuffles every question, bhackend/
\* returns the validated quiz as it is
finish(v, validated, ps) ==
  IF v = "backend"
  THEN Return(QuizResponse(validated.topic, validated.difficulty,
                [i \in 1..Len(validated.questions) |->
                   shuffle_question_options(validated.questions[i], ps[i])]),
              ps)
  ELSE Return(validated, <<>>)

\* a slip: the `except ValueError` clause missing
errorResponse_all500(e) ==
  Http(500, Detail("Backend error: ", e.msg, e.a, e.b), NoBody)

\* generate_quiz's except clauses
errorResponse(e) ==
  IF IsValueError(e)
  THEN Http(502, Detail("", e.msg, e.a, e.b), NoBody)
  ELSE Http(500, Detail("Backend error: ", e.msg, e.a, e.b), NoBody)

(**************************** mock *****************************************)
should_use_mock == useMock \/ ~apiKey \/ ~sdk

MockOptions == <<"basic idea", "common mistake", "deeper detail", "unrelated choice">>

\* generate_mock_quiz with `answers` the draws of rng.randint(0, 3)
generate_mock_quiz(topic, difficulty, count, answers) ==
  QuizResponse(topic, difficulty,
    [i \in 1..count |->
       QuizQuestion(GoodQuestionText, MockOptions, answers[i], GoodExplanation)])

(**************************** requests *************************************)
TopicChars == {" ", "a"}
Requests ==
  [topic : SeqsUpTo(TopicChars, MaxTopicLen),
   difficulty : Difficulty \cup {"extreme"},
   count : (0..MaxCount) \cup {CountMax + 1}]
NoReq == [topic |-> <<>>, difficulty |-> None, count |-> 0]

(**************************** shuffler inputs ******************************)
OptionAlphabet == <<"a", "b", "c", "d", "e">>
OptionStrings == {OptionAlphabet[i] : i \in 1..NumOptionStrings}

\* every QuizQuestion the constructor accepts, over the option strings
ShuffleInputs ==
  {QuizQuestion(GoodQuestionText, o, i, GoodExplanation) :
     o \in [1..OptionsLen -> OptionStrings], i \in 0..AnswerIndexMax}
NoQuestion == QuizQuestion(<<>>, <<>>, 0, <<>>)

(**************************** state machine ********************************)
Init ==
  /\ variant \in {"backend", "bhackend"}
  /\ sdk \in BOOLEAN
  /\ apiKey \in BOOLEAN
  /\ useMock \in (IF variant = "bhackend" THEN BOOLEAN ELSE {FALSE})
  /\ pc = "idle"
  /\ req = NoReq
  /\ calls = 0
  /\ content = NoContent
  /\ quiz = NoBody
  /\ perms = <<>>
  /\ resp = NoResp
  /\ spc = "off"
  /\ sq = NoQuestion
  /\ sout = NoQuestion
  /\ sidx = <<>>

Respond(r) ==
  /\ pc' = "done"
  /\ resp' = r

\* POST /generate-quiz up to the point where the handler answers or awaits
\* client.chat.completions.create
Post ==
  /\ pc = "idle"
  /\ \E r \in Requests :
       /\ req' = r
       /\ IF ~QuizRequestValid(r)
          THEN /\ Respond(Http(422, Detail("", RequestInvalid, 0, 0), NoBody))
               /\ UNCHANGED <<calls, content, quiz, perms>>
          ELSE IF strip(r.topic) = <<>>
          THEN /\ Respond(Http(400, Detail("", TopicEmpty, 0, 0), NoBody))
               /\ UNCHANGED <<calls, content, quiz, perms>>
          ELSE IF variant = "bhackend" /\ should_use_mock
          THEN /\ \E answers \in [1..r.count -> 0..AnswerIndexMax] :
                    Respond(Http(200, NoDetail,
                      generate_mock_quiz(strip(r.topic), r.difficulty, r.count,
                                         answers)))
               /\ UNCHANGED <<calls, content, quiz, perms>>
          ELSE IF ~sdk
          THEN /\ Respond(errorResponse(Exc("RuntimeError", SdkMissing, 0, 0)))
               /\ UNCHANGED <<calls, content, quiz, perms>>
          ELSE IF ~apiKey
          THEN /\ Respond(errorResponse(Exc("RuntimeError", KeyMissing, 0, 0)))
               /\ UNCHANGED <<calls, content, quiz, perms>>
          ELSE /\ pc' = "awaiting"
               /\ calls' = calls + 1
               /\ UNCHANGED <<content, quiz, perms, resp>>
  /\ UNCHANGED <<cfgVars, shVars>>

\* the call raised: RuntimeError("OpenAI request failed: ...") -> 500
ModelFails ==
  /\ pc = "awaiting"
  /\ content' = Content("raised", NoData)
  /\ Respond(errorResponse(Exc("RuntimeError", RequestFailed, 0, 0)))
  /\ UNCHANGED <<cfgVars, shVars, req, calls, quiz, perms>>

\* the call returned without choices: resp.choices[0] raises IndexError -> 500
ModelNoChoices ==
  /\ pc = "awaiting"
  /\ content' = Content("nochoices", NoData)
  /\ Respond(errorResponse(Exc("IndexError", NoChoices, 0, 0)))
  /\ UNCHANGED <<cfgVars, shVars, req, calls, quiz, perms>>

\* the lists random.shuffle leaves, one per question it is called for
Draws(v, questions) ==
  IF v = "backend"
  THEN [1..Len(questions) -> random_shuffle(range(OptionsLen))]
  ELSE {<<>>}

\* a slip: a reply that fails validation is asked for a second time
ModelReply_retry ==
  /\ pc = "awaiting"
  /\ \E c \in Contents :
       LET v == validate(c, req.count)
       IN /\ content' = c
          /\ IF ~v.ok /\ calls < 2
             THEN /\ calls' = calls + 1
                  /\ UNCHANGED <<pc, quiz, perms, resp>>
             ELSE IF ~v.ok
             THEN /\ Respond(errorResponse(v.exc))
                  /\ UNCHANGED <<calls, quiz, perms>>
             ELSE \E ps \in Draws(variant, v.quiz.questions) :
                    LET out == finish(variant, v.quiz, ps)
                    IN /\ quiz' = v.quiz
                       /\ perms' = out.perms
                       /\ Respond(Http(200, NoDetail, out.quiz))
                       /\ UNCHANGED calls
  /\ UNCHANGED <<cfgVars, shVars, req>>

\* the call returned a reply: validate, shuffle, answer
ModelReply ==
  /\ pc = "awaiting"
  /\ \E c \in Contents :
       LET v == validate(c, req.count)
       IN /\ content' = c
          /\ IF ~v.ok
             THEN /\ Respond(errorResponse(v.exc))
                  /\ UNCHANGED <<quiz, perms>>
             ELSE \E ps \in Draws(variant, v.quiz.questions) :
                    LET out == finish(variant, v.quiz, ps)
                    IN /\ quiz' = v.quiz
                       /\ perms' = out.perms
                       /\ Respond(Http(200, NoDetail, out.quiz))
  /\ UNCHANGED <<cfgVars, shVars, req, calls>>

\* the response has been sent; the next request starts from nothing
NextRequest ==
  /\ pc = "done"
  /\ pc' = "idle"
  /\ req' = NoReq
  /\ calls' = 0
  /\ content' = NoContent
  /\ quiz' = NoBody
  /\ perms' = <<>>
  /\ resp' = NoResp
  /\ UNCHANGED <<cfgVars, shVars>>

Next == Post \/ ModelFails \/ ModelNoChoices \/ ModelReply \/ NextRequest

Spec == Init /\ [][Next]_vars

(******************* the shuffler called on its own ************************)
InitShuffle ==
  /\ variant = "backend"
  /\ sdk = TRUE
  /\ apiKey = TRUE
  /\ useMock = FALSE
  /\ pc = "idle"
  /\ req = NoReq
  /\ calls = 0
  /\ content = NoContent
  /\ quiz = NoBody
  /\ perms = <<>>
  /\ resp = NoResp
  /\ spc = "ready"
  /\ sq \in ShuffleInputs
  /\ sout = NoQuestion
  /\ sidx = <<>>

\* one call of shuffle_question_options(sq)
Shuffle ==
  /\ spc = "ready"
  /\ \E indices \in random_shuffle(range(Len(sq.options))) :
       /\ sidx' = indices
       /\ sout' = shuffle_question_options(sq, indices)
  /\ spc' = "returned"
  /\ UNCHANGED <<cfgVars, reqVars, sq>>

\* the caller drops the result; the input question is untouched
Discard ==
  /\ spc = "returned"
  /\ spc' = "ready"
  /\ sout' = NoQuestion
  /\ sidx' = <<>>
  /\ UNCHANGED <<cfgVars, reqVars, sq>>

NextShuffle == Shuffle \/ Discard

SpecShuffle == InitShuffle /\ [][NextShuffle]_vars

(****************************** claims *************************************)
\* how often string s occurs in the list xs
occurrences(xs, s) == Cardinality({k \in 1..Len(xs) : xs[k] = s})

Permutations4 ==
  {p \in [1..OptionsLen -> 0..(OptionsLen - 1)] :
     \A a, b \in 1..OptionsLen : a # b => p[a] # p[b]}

Succeeded == pc = "done" /\ resp.status = 200
Replied == pc = "done" /\ content.kind \in {"none", "text", "json"}

\* C1: after shuffle_question_options the multiset of option strings is the
\* input's, and the option at the new answer_index is the option that was at
\* the input's answer_index (duplicated option strings included).
C1_ShufflePreservesAnswer ==
  spc = "returned" =>
    /\ Len(sout.options) = Len(sq.options)
    /\ \A s \in OptionStrings :
         occurrences(sout.options, s) = occurrences(sq.options, s)
    /\ sout.answer_index \in 0..(Len(sout.options) - 1)
    /\ sout.options[sout.answer_index + 1] = sq.options[sq.answer_index + 1]

\* C1 witness: a question with a duplicated option string was shuffled and
\* its answer moved to another slot.
C1_Witness ==
  /\ spc = "returned"
  /\ sq.options = <<"a", "a", "b", "c">>
  /\ sq.answer_index = 1
  /\ sout.answer_index = 3
  /\ sout.options # sq.options

\* C2: a 200 response carries exactly `count` questions, each with 4 options
\* and an answer_index in 0..3; a reply with another number of questions, a
\* question with another option count or an out-of-range answer_index never
\* ends in a 200.
C2_SuccessShape ==
  Succeeded =>
    /\ Len(resp.body.questions) = req.count
    /\ \A i \in 1..Len(resp.body.questions) :
         /\ Len(resp.body.questions[i].options) = 4
         /\ resp.body.questions[i].answer_index \in 0..3
    /\ content.kind = "json" =>
         /\ Len(content.data.questions) = req.count
         /\ \A i \in 1..Len(content.data.questions) :
              /\ Len(content.data.questions[i].options) = 4
              /\ content.data.questions[i].answer_index \in 0..3

\* C2 witness: a reply of the requested length answered with 200, its answer
\* moved by the shuffler.
C2_Witness ==
  /\ Succeeded
  /\ calls = 1
  /\ req.count = Len(content.data.questions)
  /\ Len(resp.body.questions) = req.count
  /\ req.count >= 1
  /\ resp.body.questions[1].answer_index # content.data.questions[1].answer_index

\* C3: a request that is valid but for a topic that is empty after trimming
\* (the empty string as well as whitespace only) is answered with 400.
C3_EmptyTopicIs400 ==
  (/\ pc = "done"
   /\ strip(req.topic) = <<>>
   /\ req.difficulty \in Difficulty
   /\ req.count \in 1..15) => resp.status = 400

\* C4: on a successful generation every returned question is the shuffler's
\* result for the validated question at its position.
C4_EveryQuestionShuffled ==
  (Succeeded /\ calls = 1) =>
    /\ Len(perms) = Len(resp.body.questions)
    /\ \A i \in 1..Len(resp.body.questions) :
         /\ perms[i] \in Permutations4
         /\ resp.body.questions[i] =
              shuffle_question_options(quiz.questions[i], perms[i])

C6_EchoesRequest ==
  Succeeded =>
    /\ resp.body.topic = strip(req.topic)
    /\ resp.body.difficulty = req.difficulty

C8_NoRetry ==
  /\ calls \in {0, 1}
  /\ pc = "awaiting" => resp = NoResp /\ calls = 1
  /\ resp.status \notin {0, 200} => pc = "done" /\ resp.body = NoBody

\* C8 witness: a request whose only model call returned unusable text ended
\* in an error response.
C8_Witness ==
  /\ pc = "done"
  /\ calls = 1
  /\ content.kind = "text"
  /\ resp.status = 502

\* C9: for every valid question and every slot k in 0..3 some outcome of the
\* shuffler has new answer_index k, and the index lists random.shuffle can
\* leave are all 24 permutations of 0..3.
C9_EverySlotPossible ==
  spc \in {"ready", "returned"} =>
    /\ \A k \in 0..3 :
         \E indices \in random_shuffle(range(Len(sq.options))) :
           shuffle_question_options(sq, indices).answer_index = k
    /\ random_shuffle(range(Len(sq.options))) = Permutations4
    /\ Cardinality(random_shuffle(range(Len(sq.options)))) = 24

\* C9 witness: the shuffler left the answer in the slot the model chose, one
\* of the outcomes; C1's witness is one where it moved.
C9_Witness ==
  /\ spc = "returned"
  /\ sidx = <<3, 2, 1, 0>>
  /\ sq.answer_index = 0
  /\ sout.answer_index = 3

\* C10: a reply with a question whose options list has not exactly 4 entries
\* is rejected by schema validation, and no reply is ever rejected with
\* OptionCountMismatch.
C10_OptionCheckUnreachable ==
  /\ resp.detail.msg # OptionCountMismatch
  /\ (/\ Replied
      /\ content.kind = "json"
      /\ content.data.type = "object"
      /\ \E i \in 1..Len(content.data.questions) :
           Len(content.data.questions[i].options) # 4) =>
       resp.status = 502 /\ resp.detail.msg = SchemaViolation

\* C10 witness: a reply of the requested length with a 5-option question was
\* rejected as a schema violation.
C10_Witness ==
  /\ Replied
  /\ content.kind = "json"
  /\ content.data.fields = AllFields
  /\ content.data.difficulty = "easy"
  /\ Len(content.data.questions) = req.count
  /\ req.count = 1
  /\ Len(content.data.questions[1].options) = 5
  /\ resp.detail.msg = SchemaViolation

====
